---------------------------- MODULE Spec2Model ----------------------------
(***************************************************************************)
(* Model of tubesync-plex-metadata.py: the video -> (ratingKey, nfo_hash)  *)
(* cache, the NFO apply pipeline (process_nfo / process_file), the         *)
(* one-shot worker pool (run_processing) and the watch mode (observer      *)
(* callbacks, retry queue, repair sweep).                                  *)
(*                                                                         *)
(* A video is named by its stem; its sidecar is the .nfo with the same     *)
(* stem.  The Plex item backing video v has ratingKey v.  A thread's pc    *)
(* names the call it is executing and has not yet returned from.           *)
(***************************************************************************)
EXTENDS Integers, Sequences, FiniteSets, TLC

\* ------------------------------------------------------------------ bounds
NumWorkers == 3          \* pool threads of the one-shot run (THREADS is 8 by default)
MaxEdits == 3            \* successful server edits counted per video
MaxFsOps == 2            \* SpecWatch: file-system changes made by the environment
MaxAttempts == 2         \* SpecWatch: reschedules followed per retry item
BackoffFsOps == 2        \* SpecBackoff: create events delivered by the environment
BackoffAttempts == 8
MaxSrt == 5              \* SpecUpload: subtitle files handed to upload_subtitles
MaxExtraWrappers == 1     \* SpecBackoff: reschedules followed per retry item

\* ------------------------------------------------------- program constants
MAX_CONCURRENT_REQUESTS == 2
WATCH_DEBOUNCE_DELAY == 2
nfo_wait == 30
video_wait == 5
MAX_NFO_RETRY == 5
MAX_RETRY_DELAY == 600
CACHE_REPAIR_INTERVAL == 300
DELAY_AFTER_NEW_FILE == 60

Videos == {"a", "b"}
Contents == {"h1", "h2"}                 \* MD5 of a non-empty sidecar
WorkerNames == <<"w1", "w2", "w3", "w4", "w5">>
Workers == {WorkerNames[i] : i \in 1..NumWorkers}
Threads == Workers \cup {"consumer", "repair", "main"}

VARIABLES
    mode,                    \* "oneshot" (--disable-watchdog) or "watch"
    ALWAYS_APPLY_NFO,        \* config
    DELETE_NFO_AFTER_APPLY,  \* config
    cache,                   \* the global cache dict
    cache_modified,          \* the global dirty flag
    cache_lock,              \* holder of cache_lock, or "free"
    disk,                    \* what a reader of CACHE_FILE observes
    video,                   \* file system: does the video file of a stem exist
    nfo,                     \* file system: "none", "empty", or the sidecar's MD5
    indexed,                 \* server: does Plex have an item for the video
    edits,                   \* server: successful applies per video
    srvFields,               \* server: the sidecar content the item's title/summary/aired
                             \* (main) and its sort title (sort) were last written from
    deleted_nfo_set,
    processed_files,
    th,                      \* per thread: pc and locals
    tasks,                   \* the executor's work queue
    retry_queue,             \* MediaFileHandler.retry_queue
    since,                   \* now - last_event_time[path], capped at the debounce delay
    events,                  \* file-system events not yet dispatched to the handler
    ready,                   \* process_retry_queue: the paths of `ready` still to visit
    cur,                     \* process_retry_queue: the tuple popped for the current path
    rp,                      \* repair_missing_ratingkeys: `missing` left, and `repaired`
    fsOps,                   \* environment changes the run may still see
    purged,                  \* history: stems whose cache key a delete event removed,
                             \* with no create of the video since
    repair_timer,            \* the Timer objects of the repair scheduler
    rcBound,                 \* reschedules followed per retry item in this run
    siblings,                \* process_nfo on X.nfo: the suffixes s for which X + s exists
    video_path,              \* process_nfo on X.nfo: the suffix of the companion it chose
    upload,                  \* upload_subtitles: which of the two definitions runs, where
                             \* it stands, the permits api_semaphore has left, `retries`
                             \* and the number of srt_files still to upload
    lk,                      \* the four locks: who holds each, and the acquire and release
                             \* operations every thread still has to make in its call
    flaky                    \* environment: may server calls raise or be rejected

vars == <<mode, ALWAYS_APPLY_NFO, DELETE_NFO_AFTER_APPLY, cache, cache_modified,
          cache_lock, disk, video, nfo, indexed, edits, srvFields, deleted_nfo_set,
          processed_files, th, tasks, retry_queue, since, events, ready, cur, rp, fsOps, purged,
          repair_timer, rcBound, siblings, video_path, upload, lk, flaky>>

\* ------------------------------------------------------------------- cache
Absent == [in |-> FALSE, rk |-> "none", h |-> "none"]
EmptyEntry == [in |-> TRUE, rk |-> "none", h |-> "none"]
EmptyCache == [v \in Videos |-> Absent]

\* cache.get(path, {}): a stem path (video not found) is never a key
CacheGet(c, v, stem) == IF stem \/ ~c[v].in THEN EmptyEntry ELSE c[v]

\* a variant of MergeEntry that keeps the ratingKey only when no hash is given
MergeEntryHashOnly(current, ratingKey, nfo_hash) ==
    [in |-> TRUE,
     rk |-> IF nfo_hash # "none" THEN current.rk
            ELSE IF ratingKey # "none" THEN ratingKey ELSE current.rk,
     h  |-> IF nfo_hash # "none" THEN nfo_hash ELSE current.h]

\* the entry update_cache stores: only the supplied fields change
MergeEntry(current, ratingKey, nfo_hash) ==
    [in |-> TRUE,
     rk |-> IF ratingKey # "none" THEN ratingKey ELSE current.rk,
     h  |-> IF nfo_hash # "none" THEN nfo_hash ELSE current.h]

\* an update that stores a new dict built from its arguments alone
UpdateCacheFresh(c, v, ratingKey, nfo_hash) ==
    [c EXCEPT ![v] = [in |-> TRUE, rk |-> ratingKey, h |-> nfo_hash]]

UpdateCache(c, v, ratingKey, nfo_hash) ==
    [c EXCEPT ![v] = MergeEntry(CacheGet(c, v, FALSE), ratingKey, nfo_hash)]

\* update_cache(video_path, ratingKey, nfo_hash), under cache_lock
update_cache(v, ratingKey, nfo_hash) ==
    /\ cache_lock = "free"
    /\ cache' = UpdateCache(cache, v, ratingKey, nfo_hash)
    /\ cache_modified' = TRUE

\* ------------------------------------------------------------- retry queue
WatchStems == {"a"}                      \* the stems the watched folders see change
PathV(v) == [k |-> "video", v |-> v]
PathN(v) == [k |-> "nfo", v |-> v]
Paths == {PathV(v) : v \in WatchStems} \cup {PathN(v) : v \in WatchStems}
\* the folder that holds the files of stem v, and the paths a move can name
PathD(v) == [k |-> "dir", v |-> v]
MovePaths == UNION {{PathV(v), PathN(v), PathD(v)} : v \in Videos}

\* a variant of Exists that takes every path to be on disk
ExistsAlways(p) == TRUE

Exists(p) == IF p.k = "video" THEN video[p.v] ELSE nfo[p.v] # "none"

Min(x, y) == IF x < y THEN x ELSE y
Max(x, y) == IF x > y THEN x ELSE y

\* retry_queue is a dict: a sequence of items in insertion order, keyed by path
NoItem == [path |-> PathV("a"), due |-> 0, delay |-> 0, rc |-> 0, is_nfo |-> FALSE]
Queued(q, p) == \E i \in 1..Len(q) : q[i].path = p
ItemOf(q, p) == q[CHOOSE i \in 1..Len(q) : q[i].path = p]

\* retry_queue[path] = (time.time() + delay, delay, retry_count, is_nfo)
EnqueueRetry(q, p, delay, retry_count, is_nfo) ==
    LET item == [path |-> p, due |-> delay, delay |-> delay, rc |-> retry_count,
                 is_nfo |-> is_nfo]
    IN IF Queued(q, p)
       THEN [i \in 1..Len(q) |-> IF q[i].path = p THEN item ELSE q[i]]
       ELSE Append(q, item)

\* retry_queue.pop(path)
PopRetry(q, p) == SelectSeq(q, LAMBDA it : it.path # p)

\* --------------------------------------------------------------- threads
IdleThread == [pc |-> "idle", kind |-> "none", v |-> "a", stem |-> FALSE,
               h |-> "none", rk |-> "none", item |-> "none",
               applied |-> TRUE, ret |-> FALSE]

\* the main thread after KeyboardInterrupt, and any thread after the process
\* has ended
StoppedPcs == {"stopping", "dead"}

HttpPcs == {"pn_fetch", "pn_find", "pn_apply", "pf_find", "rp_find"}
InFlight == Cardinality({t \in Threads : th[t].pc \in HttpPcs})
PipelinePcs == {"pn_start", "pn_gate", "pn_fetch", "pn_find", "pn_apply", "pn_commit"}

\* process_nfo returns r: to the pool / consumer, or into process_file
NfoReturn(t, r) ==
    IF th[t].kind = "file"
    THEN [IdleThread EXCEPT !.kind = "file", !.v = th[t].v, !.pc = "pf_check",
                            !.applied = r]
    ELSE [IdleThread EXCEPT !.kind = "nfo", !.v = th[t].v, !.pc = "ret", !.ret = r]

\* an exception leaves process_nfo: process_file catches it and returns False
\* (lines 639-643); a direct caller is left with the exception
NfoRaise(t) ==
    IF th[t].kind = "file"
    THEN [IdleThread EXCEPT !.kind = "file", !.v = th[t].v, !.pc = "ret", !.ret = FALSE]
    ELSE [IdleThread EXCEPT !.kind = "nfo", !.v = th[t].v, !.pc = "exc"]

\* a variant of UnlinkNfo that leaves the sidecar where it is
UnlinkNfoNever(v) ==
    UNCHANGED <<nfo, deleted_nfo_set, events>>

\* the sidecar removal after an apply or a cache hit, under nfo_lock; in watch
\* mode the observer sees the removal as a delete event
UnlinkNfo(v) ==
    IF DELETE_NFO_AFTER_APPLY
    THEN /\ nfo' = IF v \in deleted_nfo_set THEN nfo ELSE [nfo EXCEPT ![v] = "none"]
         /\ deleted_nfo_set' = deleted_nfo_set \cup {v}
         /\ events' = IF mode = "watch" /\ v \notin deleted_nfo_set /\ nfo[v] # "none"
                      THEN Append(events, [type |-> "deleted", path |-> PathN(v)])
                      ELSE events
    ELSE UNCHANGED <<nfo, deleted_nfo_set, events>>


cfgVars == <<mode, ALWAYS_APPLY_NFO, DELETE_NFO_AFTER_APPLY, rcBound, flaky, siblings,
             video_path, upload, lk>>
cacheVars == <<cache, cache_modified, cache_lock>>

\* upload_subtitles is not running
NoUpload == [impl |-> "none", sem |-> FALSE, pc |-> "idle",
             api_semaphore |-> MAX_CONCURRENT_REQUESTS, retries |-> 0, srt_files |-> 0]

LockNames == {"cache_lock", "nfo_lock", "repair_lock", "processed_files_lock"}
LockThreads == Threads \cup {"observer"}

\* no lock is held and no thread is in a call
NoLocks == [holder |-> [l \in LockNames |-> "free"], ops |-> [t \in LockThreads |-> <<>>],
            order |-> {}]

fsVars == <<video, nfo, fsOps>>
srvVars == <<indexed, edits, srvFields>>
watchVars == <<retry_queue, since, ready, cur, rp>>

\* ------------------------------------------------------------ repair timer
\* repair_timer: the state of the Timer the global refers to ("none" before the
\* first one, "pending", "fired" or "cancelled"), the delay it was started
\* with, the pending Timers the global no longer refers to, and the
\* repair_wrapper threads running beside the one of th["repair"]
NoTimer == [state |-> "none", delay |-> 0, orphans |-> 0, extra |-> 0]
PendingTimers(tm) == (IF tm.state = "pending" THEN 1 ELSE 0) + tm.orphans

\* a variant of ScheduleCacheRepair that does not cancel the Timer it replaces
ScheduleWithoutCancel(tm, delay) ==
    [tm EXCEPT !.state = "pending", !.delay = delay,
               !.orphans = IF tm.state = "pending" THEN @ + 1 ELSE @]

\* schedule_cache_repair(delay), under repair_lock: cancel the Timer the
\* global refers to, start a new one and make the global refer to it
ScheduleCacheRepair(tm, delay) ==
    [tm EXCEPT !.state = "pending", !.delay = delay]

\* repair_timer.cancel() of the shutdown path, under repair_lock
CancelTimer(tm) ==
    [tm EXCEPT !.state = IF @ = "pending" THEN "cancelled" ELSE @]

\* process_retry_queue calls process_file(path): schedule_timer keeps its
\* default
schedule_timer == FALSE

\* ------------------------------------------------------------ process_nfo
\* lines 491-511: locate the video of the .nfo, check the sidecar, hash it
NfoStart(t) ==
    /\ th[t].pc = "pn_start"
    /\ LET v == th[t].v IN
       IF nfo[v] \in {"none", "empty"}
       THEN th' = [th EXCEPT ![t] = NfoReturn(t, FALSE)]
       ELSE th' = [th EXCEPT ![t].pc = "pn_gate", ![t].h = nfo[v],
                             ![t].stem = ~video[v]]
    /\ UNCHANGED <<cfgVars, purged, repair_timer, cacheVars, disk, fsVars, srvVars, deleted_nfo_set,
                   processed_files, tasks, events, watchVars>>

\* lines 513-539: read the cache; hash gate; else start the id resolution
NfoGate(t) ==
    /\ th[t].pc = "pn_gate"
    /\ LET v == th[t].v
           cached == CacheGet(cache, v, th[t].stem)
       IN IF cached.h = th[t].h /\ ~ALWAYS_APPLY_NFO
          THEN /\ UnlinkNfo(v)
               /\ th' = [th EXCEPT ![t] = NfoReturn(t, TRUE)]
          ELSE /\ th' = [th EXCEPT ![t].rk = cached.rk, ![t].item = "none",
                                   ![t].pc = IF cached.rk # "none" THEN "pn_fetch"
                                             ELSE "pn_find"]
               /\ UNCHANGED <<nfo, deleted_nfo_set, events>>
    /\ UNCHANGED <<cfgVars, purged, repair_timer, cacheVars, disk, video, fsOps, srvVars,
                   processed_files, tasks, watchVars>>

\* lines 535-539: plex.fetchItem(ratingKey) returns; any exception gives None
NfoFetch(t) ==
    /\ th[t].pc = "pn_fetch"
    /\ \E ok \in {TRUE, ~flaky} :
          LET found == ok /\ th[t].rk \in Videos /\ indexed[th[t].rk] IN
          th' = [th EXCEPT ![t].item = IF found THEN th[t].rk ELSE "none",
                           ![t].pc = IF found THEN "pn_apply" ELSE "pn_find"]
    /\ UNCHANGED <<cfgVars, purged, repair_timer, cacheVars, disk, fsVars, srvVars, deleted_nfo_set,
                   processed_files, tasks, events, watchVars>>

\* find_plex_item(abs_path): the item whose part file is the path, or None
FindPlexItem(v, stem) == IF ~stem /\ indexed[v] THEN v ELSE "none"

\* lines 541-547: find_plex_item returns; cache the ratingKey or fail.  The
\* library search of find_plex_item (lines 393-398) is outside any try: a
\* transport error leaves process_nfo as an exception
NfoFind(t) ==
    /\ th[t].pc = "pn_find"
    /\ LET v == th[t].v
           plex_item == FindPlexItem(v, th[t].stem)
       IN \/ IF plex_item # "none"
             THEN /\ update_cache(v, plex_item, "none")
                  /\ th' = [th EXCEPT ![t].item = plex_item, ![t].pc = "pn_apply"]
             ELSE /\ th' = [th EXCEPT ![t] = NfoReturn(t, FALSE)]
                  /\ UNCHANGED <<cache, cache_modified>>
          \/ /\ flaky
             /\ th' = [th EXCEPT ![t] = NfoRaise(t)]
             /\ UNCHANGED <<cache, cache_modified>>
    /\ UNCHANGED <<cfgVars, purged, repair_timer, cache_lock, disk, fsVars, srvVars, deleted_nfo_set,
                   processed_files, tasks, events, watchVars>>

\* apply_nfo (lines 459-488): re-read the sidecar, then safe_edit writes title,
\* summary and aired in one call, then the sort title is written.  A missing
\* or empty sidecar and a rejected safe_edit give False with nothing written;
\* a failure of both sort-title writes gives False after the first write
NfoApply(t) ==
    /\ th[t].pc = "pn_apply"
    /\ LET v == th[t].item IN
       \/ /\ nfo[v] \notin {"none", "empty"}
          /\ edits[v] < MaxEdits
          /\ edits' = [edits EXCEPT ![v] = @ + 1]
          /\ srvFields' = [srvFields EXCEPT ![v] = [main |-> nfo[v], sort |-> nfo[v]]]
          /\ th' = [th EXCEPT ![t].pc = "pn_commit"]
       \/ /\ flaky \/ nfo[v] \in {"none", "empty"}
          /\ th' = [th EXCEPT ![t] = NfoReturn(t, FALSE)]
          /\ UNCHANGED <<edits, srvFields>>
       \/ /\ flaky
          /\ nfo[v] \notin {"none", "empty"}
          /\ srvFields' = [srvFields EXCEPT ![v].main = nfo[v]]
          /\ th' = [th EXCEPT ![t] = NfoReturn(t, FALSE)]
          /\ UNCHANGED edits
    /\ UNCHANGED <<cfgVars, purged, repair_timer, cacheVars, disk, fsVars, indexed, deleted_nfo_set,
                   processed_files, tasks, events, watchVars>>

\* lines 553-562: record ratingKey and hash, remove the sidecar, succeed
NfoCommit(t) ==
    /\ th[t].pc = "pn_commit"
    /\ update_cache(th[t].v, th[t].item, th[t].h)
    /\ UnlinkNfo(th[t].v)
    /\ th' = [th EXCEPT ![t] = NfoReturn(t, TRUE)]
    /\ UNCHANGED <<cfgVars, purged, repair_timer, cache_lock, disk, video, fsOps, srvVars,
                   processed_files, tasks, watchVars>>

\* ----------------------------------------------------------- process_file
\* lines 582-600: duplicate prevention, then the sidecar of the video
FileStart(t) ==
    /\ th[t].pc = "pf_start"
    /\ LET v == th[t].v IN
       IF v \in processed_files
       THEN /\ th' = [th EXCEPT ![t].pc = "ret", ![t].ret = FALSE]
            /\ UNCHANGED processed_files
       ELSE /\ processed_files' = processed_files \cup {v}
            /\ th' = [th EXCEPT ![t].applied = TRUE,
                                ![t].pc = IF nfo[v] # "none" THEN "pn_start"
                                          ELSE "pf_check"]
    /\ UNCHANGED <<cfgVars, purged, repair_timer, cacheVars, disk, fsVars, srvVars, deleted_nfo_set,
                   tasks, events, watchVars>>

\* lines 603-621: the status read from the cache entry of the video
FileCheck(t) ==
    /\ th[t].pc = "pf_check"
    /\ LET e == CacheGet(cache, th[t].v, FALSE)
           hasKey == e.rk # "none"
           hasHash == e.h # "none"
       IN IF (th[t].applied /\ hasKey /\ hasHash) \/ (hasKey /\ ~hasHash)
          THEN th' = [th EXCEPT ![t].pc = "ret", ![t].ret = TRUE]
          ELSE th' = [th EXCEPT ![t].pc = "pf_find"]
    /\ UNCHANGED <<cfgVars, purged, repair_timer, cacheVars, disk, fsVars, srvVars, deleted_nfo_set,
                   processed_files, tasks, events, watchVars>>

\* lines 621-643: find_plex_item returns; cache the ratingKey or a
\* placeholder, and with schedule_timer set a miss schedules a repair; an
\* exception of the search is caught and gives False
FileFind(t) ==
    /\ th[t].pc = "pf_find"
    /\ LET plex_item == FindPlexItem(th[t].v, FALSE) IN
       \/ /\ update_cache(th[t].v, plex_item, "none")
          /\ repair_timer' = IF plex_item = "none" /\ schedule_timer
                             THEN ScheduleCacheRepair(repair_timer, DELAY_AFTER_NEW_FILE)
                             ELSE repair_timer
          /\ th' = [th EXCEPT ![t].pc = "ret", ![t].ret = TRUE]
       \/ /\ flaky
          /\ th' = [th EXCEPT ![t].pc = "ret", ![t].ret = FALSE]
          /\ UNCHANGED <<cache, cache_modified, repair_timer>>
    /\ UNCHANGED <<cfgVars, purged, cache_lock, disk, fsVars, srvVars, deleted_nfo_set,
                   processed_files, tasks, events, watchVars>>

Pipeline(t) ==
    \/ NfoStart(t) \/ NfoGate(t) \/ NfoFetch(t) \/ NfoFind(t)
    \/ NfoApply(t) \/ NfoCommit(t)
    \/ FileStart(t) \/ FileCheck(t) \/ FileFind(t)


\* -------------------------------------------------------------- save_cache
FileOf(c) == [complete |-> TRUE, map |-> c]
PartialFile == [complete |-> FALSE, map |-> EmptyCache]

\* where a thread continues after save_cache returns or raises
AfterSave(t, ok) ==
    IF t = "main" THEN (IF ~ok THEN "crash" ELSE IF th[t].kind = "scan" THEN "submit" ELSE "exit")
    ELSE IF t = "consumer" THEN (IF ok THEN "rq_reset" ELSE "idle")
    ELSE "rp_resched"

\* lines 264-267: take cache_lock; when dirty, open(CACHE_FILE, "w") truncates
SaveBegin(t) ==
    /\ th[t].pc = "save"
    /\ cache_lock = "free"
    /\ IF cache_modified
       THEN /\ cache_lock' = t
            /\ disk' = PartialFile
            /\ th' = [th EXCEPT ![t].pc = "save_write"]
       ELSE /\ th' = [th EXCEPT ![t].pc = AfterSave(t, TRUE)]
            /\ UNCHANGED <<cache_lock, disk>>
    /\ UNCHANGED <<cfgVars, purged, repair_timer, cache, cache_modified, fsVars, srvVars, deleted_nfo_set,
                   processed_files, tasks, events, watchVars>>

\* a save_cache that writes the file and forgets to clear the flag
SaveWriteKeepsFlag(t) ==
    /\ th[t].pc = "save_write"
    /\ cache_lock = t
    /\ \/ /\ disk' = FileOf(cache)
          /\ th' = [th EXCEPT ![t].pc = AfterSave(t, TRUE)]
       \/ /\ UNCHANGED disk
          /\ th' = [th EXCEPT ![t].pc = AfterSave(t, FALSE)]
    /\ cache_lock' = "free"
    /\ UNCHANGED <<cfgVars, purged, repair_timer, cache, cache_modified, fsVars, srvVars,
                   deleted_nfo_set, processed_files, tasks, events, watchVars>>

\* lines 268-270: json.dump completes and the flag is cleared, or the write
\* raises and the with-blocks close the file and release the lock
SaveWrite(t) ==
    /\ th[t].pc = "save_write"
    /\ cache_lock = t
    /\ \/ /\ disk' = FileOf(cache)
          /\ cache_modified' = FALSE
          /\ th' = [th EXCEPT ![t].pc = AfterSave(t, TRUE)]
       \/ /\ UNCHANGED <<disk, cache_modified>>
          /\ th' = [th EXCEPT ![t].pc = AfterSave(t, FALSE)]
    /\ cache_lock' = "free"
    /\ UNCHANGED <<cfgVars, purged, repair_timer, cache, fsVars, srvVars, deleted_nfo_set,
                   processed_files, tasks, events, watchVars>>

\* ---------------------------------------------------------- run_processing
VideoOrder == <<"a", "b">>
NfoTask(v) == [kind |-> "nfo", v |-> v]
FileTask(v) == [kind |-> "file", v |-> v]

RECURSIVE TaskList(_, _, _)
TaskList(i, kind, keep) ==
    IF i > Len(VideoOrder) THEN <<>>
    ELSE (IF VideoOrder[i] \in keep
          THEN <<[kind |-> kind, v |-> VideoOrder[i]]>> ELSE <<>>)
         \o TaskList(i + 1, kind, keep)

\* a scan that adds the new videos and forgets the keys whose file is gone
ScanCacheKeepMissing(c) ==
    [v \in Videos |->
        IF c[v].in THEN c[v]
        ELSE IF ~video[v] THEN Absent
        ELSE MergeEntry(EmptyEntry, FindPlexItem(v, FALSE), "none")]

\* scan_and_update_cache (lines 978-1031): add the videos on disk that are not
\* cached, drop the keys whose file is missing, all under cache_lock
ScanCache(c) ==
    [v \in Videos |->
        IF ~video[v] THEN Absent
        ELSE IF c[v].in THEN c[v]
        ELSE MergeEntry(EmptyEntry, FindPlexItem(v, FALSE), "none")]

MainScan ==
    /\ th["main"].pc = "scan"
    /\ cache_lock = "free"
    /\ \/ /\ cache' = ScanCache(cache)
          /\ cache_modified' = (cache_modified \/ cache' # cache)
          /\ th' = [th EXCEPT !["main"].pc = "save", !["main"].kind = "scan"]
       \/ /\ flaky
          /\ \E v \in Videos : video[v] /\ ~cache[v].in
          /\ th' = [th EXCEPT !["main"].pc = "crash"]
          /\ UNCHANGED <<cache, cache_modified>>
    /\ UNCHANGED <<cfgVars, purged, repair_timer, cache_lock, disk, fsVars, srvVars, deleted_nfo_set,
                   processed_files, tasks, events, watchVars>>

\* lines 1043-1055: one process_nfo task per .nfo, then one process_file task
\* per cached video
MainSubmit ==
    /\ th["main"].pc = "submit"
    /\ tasks' = TaskList(1, "nfo", {v \in Videos : nfo[v] # "none"})
                 \o TaskList(1, "file", {v \in Videos : cache[v].in})
    /\ th' = [th EXCEPT !["main"].pc = "join"]
    /\ UNCHANGED <<cfgVars, purged, repair_timer, cacheVars, disk, fsVars, srvVars, deleted_nfo_set,
                   processed_files, events, watchVars>>

\* an idle pool thread takes the next task (the lowest idle one: pool threads
\* are interchangeable)
WorkerTake(w) ==
    /\ th["main"].pc = "join"
    /\ th[w].pc = "idle"
    /\ tasks # <<>>
    /\ \A i \in 1..NumWorkers :
          WorkerNames[i] = w => \A j \in 1..(i - 1) : th[WorkerNames[j]].pc # "idle"
    /\ th' = [th EXCEPT ![w] = [IdleThread EXCEPT
                  !.kind = Head(tasks).kind, !.v = Head(tasks).v,
                  !.pc = IF Head(tasks).kind = "nfo" THEN "pn_start" ELSE "pf_start"]]
    /\ tasks' = Tail(tasks)
    /\ UNCHANGED <<cfgVars, purged, repair_timer, cacheVars, disk, fsVars, srvVars, deleted_nfo_set,
                   processed_files, events, watchVars>>

\* the task's function returned: the future completes
WorkerDone(w) ==
    /\ th[w].pc \in {"ret", "exc"}
    /\ th' = [th EXCEPT ![w] = IdleThread]
    /\ UNCHANGED <<cfgVars, purged, repair_timer, cacheVars, disk, fsVars, srvVars, deleted_nfo_set,
                   processed_files, tasks, events, watchVars>>

\* lines 1050-1064: the executor's with-block waits for every task, then the
\* final save_cache
MainJoin ==
    /\ th["main"].pc = "join"
    /\ tasks = <<>>
    /\ \A w \in Workers : th[w].pc = "idle"
    /\ th' = [th EXCEPT !["main"].pc = "save", !["main"].kind = "final"]
    /\ UNCHANGED <<cfgVars, purged, repair_timer, cacheVars, disk, fsVars, srvVars, deleted_nfo_set,
                   processed_files, tasks, events, watchVars>>

\* ------------------------------------------------------- MediaFileHandler
\* a variant of DebouncePass that accepts every event
DebouncePassAlways(p) == since[p] >= 0

\* _debounce(path): an event within debounce_delay of the last accepted one
\* for the path is dropped; an accepted one restarts the window
DebouncePass(p) == since[p] >= WATCH_DEBOUNCE_DELAY
DebounceStamp(p) == [since EXCEPT ![p] = 0]

\* the delay on_created gives a path
InitialDelay(p) == IF p.k = "video" THEN video_wait ELSE nfo_wait

\* the queue after on_created accepted an event for path p
OnCreatedQueue(q, p) ==
    IF p.k = "dir" THEN q ELSE EnqueueRetry(q, p, InitialDelay(p), 0, p.k = "nfo")

\* on_created (lines 825-837)
OnCreated(p) ==
    /\ IF DebouncePass(p)
       THEN /\ since' = DebounceStamp(p)
            /\ retry_queue' = OnCreatedQueue(retry_queue, p)
       ELSE UNCHANGED <<since, retry_queue>>
    /\ UNCHANGED <<cacheVars, purged>>

\* on_deleted -> _handle_deleted (lines 852-863): debounce, then remove the
\* key of the path from the cache
OnDeleted(p) ==
    /\ IF DebouncePass(p)
       THEN /\ since' = DebounceStamp(p)
            /\ IF p.k \in {"video", "dir"} /\ cache[p.v].in
               THEN /\ cache_lock = "free"
                    /\ cache' = [cache EXCEPT ![p.v] = Absent]
                    /\ cache_modified' = TRUE
                    /\ purged' = IF video[p.v] THEN purged ELSE purged \cup {p.v}
               ELSE UNCHANGED <<cache, cache_modified, purged>>
       ELSE UNCHANGED <<since, cache, cache_modified, purged>>
    /\ UNCHANGED <<retry_queue, cache_lock>>

\* _handle_created (lines 868-888): debounce, then enqueue the path, or each
\* video and sidecar file below it when it is a folder
FilesBelow(p) ==
    IF p.k = "dir"
    THEN (IF video[p.v] THEN <<PathV(p.v)>> ELSE <<>>)
         \o (IF nfo[p.v] # "none" THEN <<PathN(p.v)>> ELSE <<>>)
    ELSE <<p>>

RECURSIVE EnqueueAll(_, _)
EnqueueAll(q, ps) ==
    IF ps = <<>> THEN q
    ELSE EnqueueAll(EnqueueRetry(q, Head(ps), InitialDelay(Head(ps)), 0, Head(ps).k = "nfo"),
                    Tail(ps))

HandleCreatedQueue(q, sn, p) ==
    IF sn[p] >= WATCH_DEBOUNCE_DELAY THEN EnqueueAll(q, FilesBelow(p)) ELSE q

\* on_moved (lines 842-847): _handle_deleted(src), then _handle_created(dest)
\* unless the event is a directory event
OnMoved(e) ==
    LET srcPass == DebouncePass(e.path)
        stamped == IF srcPass THEN DebounceStamp(e.path) ELSE since
        destPass == ~e.is_directory /\ stamped[e.dest] >= WATCH_DEBOUNCE_DELAY
    IN /\ IF srcPass /\ e.path.k \in {"video", "dir"} /\ cache[e.path.v].in
          THEN /\ cache_lock = "free"
               /\ cache' = [cache EXCEPT ![e.path.v] = Absent]
               /\ cache_modified' = TRUE
               /\ purged' = IF video[e.path.v] THEN purged ELSE purged \cup {e.path.v}
          ELSE UNCHANGED <<cache, cache_modified, purged>>
       /\ since' = IF destPass THEN [stamped EXCEPT ![e.dest] = 0] ELSE stamped
       /\ retry_queue' = IF e.is_directory THEN retry_queue
                         ELSE HandleCreatedQueue(retry_queue, stamped, e.dest)
       /\ UNCHANGED cache_lock

\* the observer thread dispatches the next event to the handler
ObserverDispatch ==
    /\ th["consumer"].pc \notin StoppedPcs
    /\ events # <<>>
    /\ LET e == Head(events) IN
       IF e.type = "created" THEN OnCreated(e.path)
       ELSE IF e.type = "deleted" THEN OnDeleted(e.path)
       ELSE OnMoved(e)
    /\ events' = Tail(events)
    /\ UNCHANGED <<cfgVars, repair_timer, disk, fsVars, srvVars, deleted_nfo_set, processed_files,
                   th, tasks, ready, cur, rp>>

\* process_retry_queue, lines 767-768: ready = the paths that are due
ReadyPaths(q) ==
    LET due == SelectSeq(q, LAMBDA it : it.due = 0)
    IN [i \in 1..Len(due) |-> due[i].path]

ConsumerWake ==
    /\ mode = "watch"
    /\ th["consumer"].pc = "idle"
    /\ ready' = ReadyPaths(retry_queue)
    /\ th' = [th EXCEPT !["consumer"].pc = "rq_next"]
    /\ UNCHANGED <<cfgVars, purged, repair_timer, cacheVars, disk, fsVars, srvVars, deleted_nfo_set,
                   processed_files, tasks, events, retry_queue, since, cur, rp>>

\* lines 770-806: pop the item of the next ready path; a path that no longer
\* exists is removed from the cache, any other is handed to the pipeline
ConsumerPop ==
    /\ th["consumer"].pc = "rq_next"
    /\ ready # <<>>
    /\ LET p == Head(ready) IN
       /\ Queued(retry_queue, p)
       /\ retry_queue' = PopRetry(retry_queue, p)
       /\ cur' = IF Exists(p) THEN ItemOf(retry_queue, p) ELSE NoItem
       /\ IF ~Exists(p)
          THEN /\ cache_lock = "free"
               /\ IF p.k = "video" /\ cache[p.v].in
                  THEN /\ cache' = [cache EXCEPT ![p.v] = Absent]
                       /\ cache_modified' = TRUE
                  ELSE UNCHANGED <<cache, cache_modified>>
               /\ ready' = Tail(ready)
               /\ UNCHANGED th
          ELSE /\ th' = [th EXCEPT !["consumer"] = [IdleThread EXCEPT
                           !.kind = IF p.k = "video" THEN "file" ELSE "nfo",
                           !.v = p.v,
                           !.pc = IF p.k = "video" THEN "pf_start" ELSE "pn_start"]]
               /\ UNCHANGED <<cache, cache_modified, ready>>
    /\ UNCHANGED <<cfgVars, purged, repair_timer, cache_lock, disk, fsVars, srvVars, deleted_nfo_set,
                   processed_files, tasks, events, since, rp>>

\* a variant of NextDelay without the cap
NextDelayUncapped(delay) == delay * 2

\* line 813: the delay of the next attempt
NextDelay(delay) == Min(delay * 2, MAX_RETRY_DELAY)

\* a queue that never gives a sidecar item up
GiveUpNever(item) == FALSE

\* lines 810: a sidecar item that used up its attempts is given up
GiveUp(item) == item.is_nfo /\ item.rc + 1 >= MAX_NFO_RETRY

\* lines 808-815: a failed attempt is rescheduled with a doubled delay
ConsumerPost ==
    /\ th["consumer"].pc = "ret"
    /\ IF th["consumer"].ret \/ GiveUp(cur)
       THEN UNCHANGED retry_queue
       ELSE /\ cur.rc < rcBound
            /\ retry_queue' = EnqueueRetry(retry_queue, cur.path, NextDelay(cur.delay),
                                           cur.rc + 1, cur.is_nfo)
    /\ ready' = Tail(ready)
    /\ cur' = NoItem
    /\ th' = [th EXCEPT !["consumer"] = [IdleThread EXCEPT !.pc = "rq_next"]]
    /\ UNCHANGED <<cfgVars, purged, repair_timer, cacheVars, disk, fsVars, srvVars, deleted_nfo_set,
                   processed_files, tasks, events, since, rp>>

\* start_watchdog, lines 905-910: an exception that left process_retry_queue
\* is logged and the loop goes on; the popped item and the rest of this pass
\* are dropped
ConsumerAbort ==
    /\ th["consumer"].pc = "exc"
    /\ th' = [th EXCEPT !["consumer"] = IdleThread]
    /\ ready' = <<>>
    /\ cur' = NoItem
    /\ UNCHANGED <<cfgVars, purged, repair_timer, cacheVars, disk, fsVars, srvVars, deleted_nfo_set,
                   processed_files, tasks, events, retry_queue, since, rp>>

\* lines 817-819: after the batch, save the cache when it is dirty
ConsumerEnd ==
    /\ th["consumer"].pc = "rq_next"
    /\ ready = <<>>
    /\ th' = [th EXCEPT !["consumer"].pc = IF cache_modified THEN "save" ELSE "idle"]
    /\ UNCHANGED <<cfgVars, purged, repair_timer, cacheVars, disk, fsVars, srvVars, deleted_nfo_set,
                   processed_files, tasks, events, retry_queue, since, ready, cur, rp>>

\* line 820: cache_modified = False, outside cache_lock
ConsumerReset ==
    /\ th["consumer"].pc = "rq_reset"
    /\ cache_modified' = FALSE
    /\ th' = [th EXCEPT !["consumer"].pc = "idle"]
    /\ UNCHANGED <<cfgVars, purged, repair_timer, cache, cache_lock, disk, fsVars, srvVars, deleted_nfo_set,
                   processed_files, tasks, events, retry_queue, since, ready, cur, rp>>

\* ------------------------------------------------ repair_missing_ratingkeys
\* a listing that forgets to look at the ratingKey
MissingKeysAll(c) ==
    TaskList(1, "repair", {v \in Videos : c[v].in /\ video[v]})

\* lines 926-929: the cached paths without a ratingKey whose file exists
MissingKeys(c) ==
    TaskList(1, "repair", {v \in Videos : c[v].in /\ c[v].rk = "none" /\ video[v]})

\* a pending Timer fires: one that the global refers to, or one that it no
\* longer refers to
FireTimer(tm) ==
    IF tm.state = "pending" THEN [tm EXCEPT !.state = "fired"]
    ELSE [tm EXCEPT !.orphans = @ - 1]

\* a pending Timer fires: repair_wrapper starts the sweep, which lists the
\* missing keys; the listing reads the cache without the lock and raises when
\* another thread changes the cache meanwhile
RepairStart ==
    /\ mode = "watch"
    /\ th["repair"].pc = "idle"
    /\ PendingTimers(repair_timer) > 0
    /\ repair_timer' = FireTimer(repair_timer)
    /\ \E raised \in {FALSE, flaky} :
          LET missing == IF raised THEN <<>> ELSE MissingKeys(cache) IN
          /\ rp' = [missing |-> missing, repaired |-> FALSE]
          /\ th' = [th EXCEPT !["repair"].pc = IF missing = <<>> THEN "rp_resched"
                                                ELSE "rp_find"]
    /\ UNCHANGED <<cfgVars, purged, cacheVars, disk, fsVars, srvVars, deleted_nfo_set,
                   processed_files, tasks, events, retry_queue, since, ready, cur>>

\* lines 938-946: find_plex_item returns for the next path; a hit is cached,
\* an exception is caught and the sweep goes on
RepairFind ==
    /\ mode = "watch"
    /\ th["repair"].pc = "rp_find"
    /\ LET v == Head(rp.missing).v
           last == Len(rp.missing) = 1
       IN \E plex_item \in {FindPlexItem(v, FALSE)} \cup (IF flaky THEN {"none"} ELSE {}) :
          LET hit == rp.repaired \/ plex_item # "none" IN
          /\ IF plex_item # "none"
             THEN update_cache(v, plex_item, "none")
             ELSE UNCHANGED <<cache, cache_modified>>
          /\ rp' = [missing |-> Tail(rp.missing), repaired |-> hit /\ ~last]
          /\ th' = [th EXCEPT !["repair"].pc =
                        IF ~last THEN "rp_find" ELSE IF hit THEN "save" ELSE "rp_resched"]
    /\ UNCHANGED <<cfgVars, purged, repair_timer, cache_lock, disk, fsVars, srvVars, deleted_nfo_set,
                   processed_files, tasks, events, retry_queue, since, ready, cur>>

\* repair_wrapper, lines 722-729: whether the sweep returned or raised, the
\* next repair is scheduled
RepairReschedule ==
    /\ mode = "watch"
    /\ th["repair"].pc = "rp_resched"
    /\ repair_timer' = ScheduleCacheRepair(repair_timer, CACHE_REPAIR_INTERVAL)
    /\ th' = [th EXCEPT !["repair"].pc = "idle"]
    /\ UNCHANGED <<cfgVars, purged, cacheVars, disk, fsVars, srvVars, deleted_nfo_set,
                   processed_files, tasks, events, watchVars>>

\* a pending Timer fires while a repair_wrapper is still running: a further
\* repair_wrapper starts beside it, followed here as far as the timers go
RepairStartExtra ==
    /\ mode = "watch"
    /\ th["repair"].pc \notin {"idle", "dead"}
    /\ PendingTimers(repair_timer) > 0
    /\ repair_timer.extra < MaxExtraWrappers
    /\ repair_timer' = [FireTimer(repair_timer) EXCEPT !.extra = @ + 1]
    /\ UNCHANGED <<cfgVars, purged, cacheVars, disk, fsVars, srvVars, deleted_nfo_set,
                   processed_files, th, tasks, events, watchVars>>

\* line 729 in a further repair_wrapper
RepairRescheduleExtra ==
    /\ mode = "watch"
    /\ repair_timer.extra > 0
    /\ repair_timer' = [ScheduleCacheRepair(repair_timer, CACHE_REPAIR_INTERVAL)
                           EXCEPT !.extra = @ - 1]
    /\ UNCHANGED <<cfgVars, purged, cacheVars, disk, fsVars, srvVars, deleted_nfo_set,
                   processed_files, th, tasks, events, watchVars>>

\* process_file, lines 631-633, called with schedule_timer set: a resolution
\* miss schedules the bonus repair
BonusTrigger ==
    /\ mode = "watch"
    /\ repair_timer' = ScheduleCacheRepair(repair_timer, DELAY_AFTER_NEW_FILE)
    /\ UNCHANGED <<cfgVars, purged, cacheVars, disk, fsVars, srvVars, deleted_nfo_set,
                   processed_files, th, tasks, events, watchVars>>

\* ------------------------------------------------------------ environment
\* a file appears under a watched folder (or is replaced by a rename into
\* place): the observer reports a create event for its path
EnvCreate(p, content) ==
    /\ fsOps > 0
    /\ fsOps' = fsOps - 1
    /\ IF p.k = "video"
       THEN /\ video' = [video EXCEPT ![p.v] = TRUE]
            /\ UNCHANGED nfo
       ELSE /\ nfo' = [nfo EXCEPT ![p.v] = content]
            /\ UNCHANGED video
    /\ events' = Append(events, [type |-> "created", path |-> p])
    /\ purged' = IF p.k = "video" THEN purged \ {p.v} ELSE purged
    /\ UNCHANGED <<cfgVars, repair_timer, cacheVars, disk, srvVars, deleted_nfo_set, processed_files,
                   th, tasks, watchVars>>

\* a file is removed: the observer reports a delete event for its path
EnvDelete(p) ==
    /\ fsOps > 0
    /\ Exists(p)
    /\ fsOps' = fsOps - 1
    /\ IF p.k = "video"
       THEN /\ video' = [video EXCEPT ![p.v] = FALSE]
            /\ UNCHANGED nfo
       ELSE /\ nfo' = [nfo EXCEPT ![p.v] = "none"]
            /\ UNCHANGED video
    /\ events' = Append(events, [type |-> "deleted", path |-> p])
    /\ UNCHANGED <<cfgVars, purged, repair_timer, cacheVars, disk, srvVars, deleted_nfo_set, processed_files,
                   th, tasks, watchVars>>

\* a file, or the folder of a stem with its files, is moved to a place where
\* nothing is: the observer reports one move event
EnvMove(src, w) ==
    LET v == src.v
        dest == [k |-> src.k, v |-> w]
        takesVideo == src.k \in {"video", "dir"} /\ video[v]
        takesNfo == src.k \in {"nfo", "dir"} /\ nfo[v] # "none"
    IN /\ fsOps > 0
       /\ v # w
       /\ takesVideo \/ takesNfo
       /\ ~video[w] /\ nfo[w] = "none"
       /\ fsOps' = fsOps - 1
       /\ video' = IF takesVideo THEN [video EXCEPT ![v] = FALSE, ![w] = TRUE] ELSE video
       /\ nfo' = IF takesNfo THEN [nfo EXCEPT ![v] = "none", ![w] = nfo[v]] ELSE nfo
       /\ indexed' = IF takesVideo THEN [indexed EXCEPT ![v] = FALSE] ELSE indexed
       /\ events' = Append(events, [type |-> "moved", path |-> src, dest |-> dest,
                                    is_directory |-> src.k = "dir"])
       /\ purged' = IF takesVideo THEN purged \ {w} ELSE purged
       /\ UNCHANGED <<cfgVars, repair_timer, cacheVars, disk, edits, srvFields,
                      deleted_nfo_set, processed_files, th, tasks, watchVars>>

\* a folder with a video, a sidecar or both appears where nothing was; the
\* observer reports the folder and, depending on the platform, its files too
EnvCreateDir(w, withVideo, withNfo) ==
    LET files == (IF withVideo THEN <<PathV(w)>> ELSE <<>>)
                 \o (IF withNfo THEN <<PathN(w)>> ELSE <<>>)
    IN /\ fsOps > 0
       /\ withVideo \/ withNfo
       /\ ~video[w] /\ nfo[w] = "none"
       /\ fsOps' = fsOps - 1
       /\ video' = IF withVideo THEN [video EXCEPT ![w] = TRUE] ELSE video
       /\ nfo' = IF withNfo THEN [nfo EXCEPT ![w] = "h1"] ELSE nfo
       /\ \E sub \in BOOLEAN :
             events' = Append(events, [type |-> "created", path |-> PathD(w)])
                       \o (IF sub THEN [i \in 1..Len(files) |->
                                          [type |-> "created", path |-> files[i]]]
                           ELSE <<>>)
       /\ purged' = IF withVideo THEN purged \ {w} ELSE purged
       /\ UNCHANGED <<cfgVars, repair_timer, cacheVars, disk, srvVars, deleted_nfo_set,
                      processed_files, th, tasks, watchVars>>

\* the server scans the library and indexes a video that is on disk
EnvIndex(v) ==
    /\ mode = "watch"
    /\ video[v]
    /\ ~indexed[v]
    /\ indexed' = [indexed EXCEPT ![v] = TRUE]
    /\ UNCHANGED <<cfgVars, purged, repair_timer, cacheVars, disk, fsVars, edits, srvFields, deleted_nfo_set,
                   processed_files, th, tasks, events, watchVars>>

\* time passes, up to the next moment something changes: a debounce window
\* closes or a retry item falls due
Deadlines ==
    {WATCH_DEBOUNCE_DELAY - since[p] : p \in {q \in DOMAIN since : since[q] < WATCH_DEBOUNCE_DELAY}}
    \cup {retry_queue[i].due : i \in {j \in 1..Len(retry_queue) : retry_queue[j].due > 0}}

Tick ==
    /\ Deadlines # {}
    /\ LET d == CHOOSE x \in Deadlines : \A y \in Deadlines : x <= y IN
       /\ retry_queue' = [i \in 1..Len(retry_queue) |->
             [retry_queue[i] EXCEPT !.due = Max(0, @ - d)]]
       /\ since' = [p \in DOMAIN since |-> Min(WATCH_DEBOUNCE_DELAY, since[p] + d)]
    /\ UNCHANGED <<cfgVars, purged, repair_timer, cacheVars, disk, fsVars, srvVars, deleted_nfo_set,
                   processed_files, th, tasks, events, ready, cur, rp>>

\* ---------------------------------------------------------------- signals
\* start_watchdog, lines 913-918: SIGINT raises KeyboardInterrupt in the main
\* thread, wherever process_retry_queue stands; a lock it holds is released by
\* its with block, the observer is stopped and the Timer the global refers to
\* is cancelled
Sigint ==
    /\ mode = "watch"
    /\ th["consumer"].pc \notin StoppedPcs
    /\ th' = [th EXCEPT !["consumer"] = [IdleThread EXCEPT !.pc = "stopping"]]
    /\ cache_lock' = IF cache_lock = "consumer" THEN "free" ELSE cache_lock
    /\ ready' = <<>>
    /\ cur' = NoItem
    /\ repair_timer' = CancelTimer(repair_timer)
    /\ UNCHANGED <<cfgVars, purged, cache, cache_modified, disk, fsVars, srvVars,
                   deleted_nfo_set, processed_files, tasks, events, retry_queue, since, rp>>

\* line 919 and the end of main: observer.join() returns and the process ends,
\* and with it the daemon Timers and the repair_wrapper thread
Exit ==
    /\ mode = "watch"
    /\ th["consumer"].pc = "stopping"
    /\ mode' = "exited"
    /\ th' = [t \in Threads |-> [IdleThread EXCEPT !.pc = "dead"]]
    /\ cache_lock' = "free"
    /\ UNCHANGED <<ALWAYS_APPLY_NFO, DELETE_NFO_AFTER_APPLY, rcBound, flaky, siblings, video_path, upload, lk, purged,
                   repair_timer, cache, cache_modified, disk, fsVars, srvVars,
                   deleted_nfo_set, processed_files, tasks, events, watchVars>>

\* SIGTERM: the program installs no handler, the process ends at once
Sigterm ==
    /\ mode = "watch"
    /\ mode' = "exited"
    /\ th' = [t \in Threads |-> [IdleThread EXCEPT !.pc = "dead"]]
    /\ cache_lock' = "free"
    /\ UNCHANGED <<ALWAYS_APPLY_NFO, DELETE_NFO_AFTER_APPLY, rcBound, flaky, siblings, video_path, upload, lk, purged,
                   repair_timer, cache, cache_modified, disk, fsVars, srvVars,
                   deleted_nfo_set, processed_files, tasks, events, watchVars>>

\* ------------------------------------------------------------------- Init
InitCommon ==
    /\ ALWAYS_APPLY_NFO \in BOOLEAN
    /\ DELETE_NFO_AFTER_APPLY \in BOOLEAN
    /\ cache = EmptyCache
    /\ cache_modified = FALSE
    /\ cache_lock = "free"
    /\ disk = FileOf(EmptyCache)
    /\ edits = [v \in Videos |-> 0]
    /\ srvFields = [v \in Videos |-> [main |-> "none", sort |-> "none"]]
    /\ deleted_nfo_set = {}
    /\ processed_files = {}
    /\ tasks = <<>>
    /\ retry_queue = <<>>
    /\ since = [p \in Paths |-> WATCH_DEBOUNCE_DELAY]
    /\ events = <<>>
    /\ ready = <<>>
    /\ cur = NoItem
    /\ rp = [missing |-> <<>>, repaired |-> FALSE]
    /\ purged = {}

InitOneShot ==
    /\ mode = "oneshot"
    /\ siblings = {}
    /\ video_path = "unset"
    /\ upload = NoUpload
    /\ lk = NoLocks
    /\ InitCommon
    /\ fsOps = 0
    /\ rcBound = 0
    /\ repair_timer = NoTimer
    /\ flaky \in BOOLEAN
    /\ video \in [Videos -> BOOLEAN]
    /\ nfo \in [Videos -> {"none", "empty", "h1"}]
    /\ indexed \in [Videos -> BOOLEAN]
    /\ \A v \in Videos : indexed[v] => video[v]
    /\ th = [t \in Threads |-> IF t = "main" THEN [IdleThread EXCEPT !.pc = "scan"]
                                ELSE IdleThread]

NextOneShot ==
    \/ MainScan
    \/ MainSubmit
    \/ MainJoin
    \/ SaveBegin("main")
    \/ SaveWrite("main")
    \/ \E w \in Workers : WorkerTake(w) \/ WorkerDone(w) \/ Pipeline(w)

SpecOneShot == InitOneShot /\ [][NextOneShot]_vars


WatchFiles ==
    /\ video \in [Videos -> BOOLEAN]
    /\ nfo \in [Videos -> {"none", "h1"}]
    /\ indexed \in [Videos -> BOOLEAN]
    /\ \A v \in Videos \ WatchStems : ~video[v] /\ nfo[v] = "none" /\ ~indexed[v]
    /\ \A v \in Videos : indexed[v] => video[v]
    /\ th = [t \in Threads |-> IdleThread]

InitWatch ==
    /\ mode = "watch"
    /\ siblings = {}
    /\ video_path = "unset"
    /\ upload = NoUpload
    /\ lk = NoLocks
    /\ InitCommon
    /\ fsOps = MaxFsOps
    /\ rcBound = MaxAttempts
    /\ repair_timer = ScheduleCacheRepair(NoTimer, CACHE_REPAIR_INTERVAL)
    /\ flaky = TRUE
    /\ WatchFiles

Consumer ==
    \/ ConsumerWake
    \/ ConsumerPop
    \/ ConsumerPost
    \/ ConsumerAbort
    \/ ConsumerEnd
    \/ ConsumerReset
    \/ Pipeline("consumer")
    \/ SaveBegin("consumer")
    \/ SaveWrite("consumer")

Repair ==
    \/ RepairStart
    \/ RepairFind
    \/ RepairReschedule
    \/ SaveBegin("repair")
    \/ SaveWrite("repair")

NextWatch ==
    \/ ObserverDispatch
    \/ Consumer
    \/ Repair
    \/ \E p \in Paths : \E c \in Contents \cup {"empty"} : EnvCreate(p, c)
    \/ \E p \in Paths : EnvDelete(p)
    \/ \E v \in WatchStems : EnvIndex(v)
    \/ Tick

SpecWatch == InitWatch /\ [][NextWatch]_vars

\* watch mode as the backoff of the retry queue sees it: files arrive, none
\* is removed and the server indexes nothing new
InitBackoff ==
    /\ mode = "watch"
    /\ siblings = {}
    /\ video_path = "unset"
    /\ upload = NoUpload
    /\ lk = NoLocks
    /\ InitCommon
    /\ fsOps = BackoffFsOps
    /\ rcBound = BackoffAttempts
    /\ repair_timer = ScheduleCacheRepair(NoTimer, CACHE_REPAIR_INTERVAL)
    /\ flaky = TRUE
    /\ WatchFiles

NextBackoff ==
    \/ ObserverDispatch
    \/ Consumer
    \/ \E p \in Paths : EnvCreate(p, "h1")
    \/ Tick

SpecBackoff == InitBackoff /\ [][NextBackoff]_vars

\* the repair scheduler on its own: watch mode starts on a cache file of an
\* earlier run, the repair timer fires, the bonus trigger is called and the
\* server indexes the videos
InitTimer ==
    /\ mode = "watch"
    /\ siblings = {}
    /\ video_path = "unset"
    /\ upload = NoUpload
    /\ lk = NoLocks
    /\ ALWAYS_APPLY_NFO \in BOOLEAN
    /\ DELETE_NFO_AFTER_APPLY \in BOOLEAN
    /\ cache \in [Videos -> {Absent, EmptyEntry}]
    /\ cache_modified = FALSE
    /\ cache_lock = "free"
    /\ disk = FileOf(cache)
    /\ edits = [v \in Videos |-> 0]
    /\ srvFields = [v \in Videos |-> [main |-> "none", sort |-> "none"]]
    /\ deleted_nfo_set = {}
    /\ processed_files = {}
    /\ tasks = <<>>
    /\ retry_queue = <<>>
    /\ since = [p \in Paths |-> WATCH_DEBOUNCE_DELAY]
    /\ events = <<>>
    /\ ready = <<>>
    /\ cur = NoItem
    /\ rp = [missing |-> <<>>, repaired |-> FALSE]
    /\ purged = {}
    /\ fsOps = 0
    /\ rcBound = 0
    /\ repair_timer = ScheduleCacheRepair(NoTimer, CACHE_REPAIR_INTERVAL)
    /\ flaky = TRUE
    /\ video = [v \in Videos |-> TRUE]
    /\ nfo = [v \in Videos |-> "none"]
    /\ indexed = [v \in Videos |-> FALSE]
    /\ th = [t \in Threads |-> IdleThread]

NextTimer ==
    \/ Repair
    \/ RepairStartExtra
    \/ RepairRescheduleExtra
    \/ BonusTrigger
    \/ \E v \in Videos : EnvIndex(v)

SpecTimer == InitTimer /\ [][NextTimer]_vars

\* watch mode from an empty folder: each file appears once and stays as it
\* is, the server indexes a video at some moment or never; the observer, the
\* loop of start_watchdog, the repair timer and the clock keep running
InitLive ==
    /\ mode = "watch"
    /\ siblings = {}
    /\ video_path = "unset"
    /\ upload = NoUpload
    /\ lk = NoLocks
    /\ InitCommon
    /\ fsOps = BackoffFsOps
    /\ rcBound = BackoffAttempts
    /\ repair_timer = ScheduleCacheRepair(NoTimer, CACHE_REPAIR_INTERVAL)
    /\ flaky \in BOOLEAN
    /\ video = [v \in Videos |-> FALSE]
    /\ nfo = [v \in Videos |-> "none"]
    /\ indexed = [v \in Videos |-> FALSE]
    /\ th = [t \in Threads |-> IdleThread]

EnvAppear(p) ==
    /\ ~Exists(p)
    /\ EnvCreate(p, "h1")

NextLive ==
    \/ ObserverDispatch
    \/ Consumer
    \/ Repair
    \/ \E p \in Paths : EnvAppear(p)
    \/ \E v \in WatchStems : EnvIndex(v)
    \/ Tick

SpecLive ==
    /\ InitLive
    /\ [][NextLive]_vars
    /\ WF_vars(ObserverDispatch)
    /\ SF_vars(Consumer)
    /\ SF_vars(Repair)
    /\ WF_vars(Tick)

\* watch mode with delete-after-apply, from an empty folder where each watched
\* path appears exactly once: one video and its sidecar; a sidecar item is
\* followed until it is dropped
InitPair ==
    /\ mode = "watch"
    /\ siblings = {}
    /\ video_path = "unset"
    /\ upload = NoUpload
    /\ lk = NoLocks
    /\ InitCommon
    /\ DELETE_NFO_AFTER_APPLY
    /\ fsOps = Cardinality(Paths)
    /\ rcBound = MAX_NFO_RETRY
    /\ repair_timer = ScheduleCacheRepair(NoTimer, CACHE_REPAIR_INTERVAL)
    /\ flaky \in BOOLEAN
    /\ video = [v \in Videos |-> FALSE]
    /\ nfo = [v \in Videos |-> "none"]
    /\ indexed = [v \in Videos |-> FALSE]
    /\ th = [t \in Threads |-> IdleThread]

SpecPair ==
    /\ InitPair
    /\ [][NextLive]_vars
    /\ WF_vars(ObserverDispatch)
    /\ SF_vars(Consumer)
    /\ SF_vars(Repair)
    /\ WF_vars(Tick)

\* watch mode started on the cache file of an earlier run, while files are
\* created and removed
CachedEntries ==
    {e \in [in : {TRUE}, rk : {"none", "a"}, h : {"none", "h1"}] : e.h # "none" => e.rk # "none"}

InitWarm ==
    /\ mode = "watch"
    /\ siblings = {}
    /\ video_path = "unset"
    /\ upload = NoUpload
    /\ lk = NoLocks
    /\ ALWAYS_APPLY_NFO \in BOOLEAN
    /\ DELETE_NFO_AFTER_APPLY \in BOOLEAN
    /\ cache \in [Videos -> {Absent} \cup CachedEntries]
    /\ \A v \in Videos \ WatchStems : cache[v] = Absent
    /\ \A v \in Videos : cache[v].rk \in {"none", v}
    /\ cache_modified = FALSE
    /\ cache_lock = "free"
    /\ disk = FileOf(cache)
    /\ edits = [v \in Videos |-> 0]
    /\ srvFields = [v \in Videos |-> [main |-> cache[v].h, sort |-> cache[v].h]]
    /\ deleted_nfo_set = {}
    /\ processed_files = {}
    /\ tasks = <<>>
    /\ retry_queue = <<>>
    /\ since = [p \in Paths |-> WATCH_DEBOUNCE_DELAY]
    /\ events = <<>>
    /\ ready = <<>>
    /\ cur = NoItem
    /\ rp = [missing |-> <<>>, repaired |-> FALSE]
    /\ purged = {}
    /\ fsOps = MaxFsOps
    /\ rcBound = MaxAttempts
    /\ repair_timer = ScheduleCacheRepair(NoTimer, CACHE_REPAIR_INTERVAL)
    /\ flaky = TRUE
    /\ WatchFiles
    /\ \A v \in Videos : cache[v].rk # "none" => indexed[v]

NextWarm ==
    \/ ObserverDispatch
    \/ Consumer
    \/ Repair
    \/ \E p \in Paths : EnvCreate(p, "h1")
    \/ \E p \in Paths : EnvDelete(p)
    \/ \E v \in WatchStems : EnvIndex(v)
    \/ Tick

SpecWarm == InitWarm /\ [][NextWarm]_vars

\* the event handlers on their own: watch mode started on the cache file of
\* an earlier run, files and folders are created, removed and moved, the
\* observer dispatches the events and time passes
InitMove ==
    /\ mode = "watch"
    /\ siblings = {}
    /\ video_path = "unset"
    /\ upload = NoUpload
    /\ lk = NoLocks
    /\ ALWAYS_APPLY_NFO \in BOOLEAN
    /\ DELETE_NFO_AFTER_APPLY \in BOOLEAN
    /\ cache \in [Videos -> {Absent} \cup CachedEntries]
    /\ \A v \in Videos : cache[v].rk \in {"none", v}
    /\ cache_modified = FALSE
    /\ cache_lock = "free"
    /\ disk = FileOf(cache)
    /\ edits = [v \in Videos |-> 0]
    /\ srvFields = [v \in Videos |-> [main |-> cache[v].h, sort |-> cache[v].h]]
    /\ deleted_nfo_set = {}
    /\ processed_files = {}
    /\ tasks = <<>>
    /\ retry_queue = <<>>
    /\ since = [p \in MovePaths |-> WATCH_DEBOUNCE_DELAY]
    /\ events = <<>>
    /\ ready = <<>>
    /\ cur = NoItem
    /\ rp = [missing |-> <<>>, repaired |-> FALSE]
    /\ purged = {}
    /\ fsOps = MaxFsOps
    /\ rcBound = MaxAttempts
    /\ repair_timer = ScheduleCacheRepair(NoTimer, CACHE_REPAIR_INTERVAL)
    /\ flaky = TRUE
    /\ video \in [Videos -> BOOLEAN]
    /\ nfo \in [Videos -> {"none", "h1"}]
    /\ indexed \in [Videos -> BOOLEAN]
    /\ \A v \in Videos : indexed[v] => video[v]
    /\ \A v \in Videos : cache[v].rk # "none" => indexed[v]
    /\ th = [t \in Threads |-> IdleThread]

NextMove ==
    \/ ObserverDispatch
    \/ \E p \in MovePaths : \E w \in Videos : EnvMove(p, w)
    \/ \E w \in Videos : \E withVideo, withNfo \in BOOLEAN : EnvCreateDir(w, withVideo, withNfo)
    \/ \E p \in Paths : EnvCreate(p, "h1")
    \/ \E p \in Paths : EnvDelete(p)
    \/ Tick

SpecMove == InitMove /\ [][NextMove]_vars

\* watch mode with the signals that end it
NextSignal ==
    \/ ObserverDispatch
    \/ Consumer
    \/ Repair
    \/ \E p \in Paths : \E c \in Contents \cup {"empty"} : EnvCreate(p, c)
    \/ \E p \in Paths : EnvDelete(p)
    \/ \E v \in WatchStems : EnvIndex(v)
    \/ Tick
    \/ Sigint
    \/ Exit
    \/ Sigterm

SpecSignal == InitWatch /\ [][NextSignal]_vars

\* the program in either mode
Init == InitOneShot \/ InitWatch
Next == NextOneShot \/ NextWatch
Spec == Init /\ [][Next]_vars

\* ================================================================== claims
\* the threads inside process_nfo for video v
InPipeline(v) == {t \in Threads : th[t].pc \in PipelinePcs /\ th[t].v = v}

\* the queue items of path p
ItemsOf(q, p) == {i \in 1..Len(q) : q[i].path = p}

\* C1: in every reachable cache state, an entry that has an nfo_hash also has
\* a ratingKey
C1_HashImpliesKey ==
    \A v \in Videos : cache[v].h # "none" => cache[v].in /\ cache[v].rk # "none"

\* an applied sidecar is recorded in the cache
C1_Witness ==
    \E v \in Videos : cache[v].in /\ cache[v].h # "none" /\ edits[v] > 0

\* C2: no two invocations of process_nfo for the same video run concurrently
C2_OnePipelinePerVideo ==
    \A v \in Videos : Cardinality(InPipeline(v)) <= 1

\* C3: with ALWAYS_APPLY_NFO off and the sidecar unchanged, any number of
\* pipeline runs makes at most one server edit per video
C3_AtMostOneEdit ==
    (mode = "oneshot" /\ ~ALWAYS_APPLY_NFO) => \A v \in Videos : edits[v] <= 1

\* C4: a reader of the cache file always finds a complete map
C4_CacheFileComplete == disk.complete

\* C5: a key removed by a delete event stays out of the cache while the video
\* is not created again
C5_DeletedKeyStaysAbsent ==
    \A v \in purged : ~cache[v].in

\* C6: at most MAX_CONCURRENT_REQUESTS server calls are in flight
C6_RequestsBounded == InFlight <= MAX_CONCURRENT_REQUESTS

\* C7: in a run of failures the delay doubles from the initial delay of the
\* path at every reschedule, up to MAX_RETRY_DELAY and never beyond
C7_DelayDoublesToCap ==
    \A i \in 1..Len(retry_queue) :
        LET it == retry_queue[i] IN
        /\ it.delay = Min(InitialDelay(it.path) * 2^(it.rc), MAX_RETRY_DELAY)
        /\ it.delay <= MAX_RETRY_DELAY

\* an item rescheduled once more after its delay reached the cap
C7_Witness ==
    \E i \in 1..Len(retry_queue) :
        /\ retry_queue[i].rc >= 1
        /\ retry_queue[i].delay = MAX_RETRY_DELAY
        /\ InitialDelay(retry_queue[i].path) * 2^(retry_queue[i].rc - 1) > MAX_RETRY_DELAY

\* C8: a create event for a path that is already queued leaves the entry of
\* the path as it was
C8_EnqueueKeepsEntry ==
    [][(/\ events # <<>>
        /\ events' = Tail(events)
        /\ Head(events).type = "created"
        /\ Queued(retry_queue, Head(events).path))
       => /\ Queued(retry_queue', Head(events).path)
          /\ ItemOf(retry_queue', Head(events).path)
                = ItemOf(retry_queue, Head(events).path)]_vars

\* C9: an event inside the debounce window of its path changes neither the
\* retry queue nor the cache; after a create event the queue holds one entry
\* for the path, the one it held before if there was one; and the pipeline
\* invocation the consumer starts for a path takes that entry off the queue
C9_BurstCollapses ==
    [][/\ (events # <<>> /\ events' = Tail(events))
          => LET p == Head(events).path IN
             /\ since[p] < WATCH_DEBOUNCE_DELAY
                   => retry_queue' = retry_queue /\ cache' = cache
             /\ Cardinality(ItemsOf(retry_queue', p)) <= 1
             /\ Queued(retry_queue, p) => Len(retry_queue') = Len(retry_queue)
       /\ (th["consumer"].pc = "rq_next" /\ th'["consumer"].pc \in {"pf_start", "pn_start"})
          => /\ Cardinality(ItemsOf(retry_queue, Head(ready))) = 1
             /\ ~Queued(retry_queue', Head(ready))]_vars

\* a create event of a burst, for a queued path, is about to be handled inside
\* the debounce window
C9_Witness ==
    /\ events # <<>>
    /\ Head(events).type = "created"
    /\ since[Head(events).path] < WATCH_DEBOUNCE_DELAY
    /\ Queued(retry_queue, Head(events).path)

\* C10: a retry item whose sidecar exists and whose video the server does not
\* know is reported as failed
C10_ResolutionMissFails ==
    LET c == th["consumer"] IN
    (/\ c.pc = "ret"
     /\ ~indexed[c.v]
     /\ nfo[c.v] \notin {"none", "empty"}
     /\ c.kind = "file" => ~c.applied)
    => ~c.ret

\* C11: a retry item whose attempt ended without success, and that has not
\* used up its attempts, is back on the retry queue when the consumer leaves it
C11_FailedItemRescheduled ==
    [][(/\ cur # NoItem
        /\ cur' = NoItem
        /\ ~(th["consumer"].pc = "ret" /\ th["consumer"].ret)
        /\ ~GiveUp(cur))
       => Queued(retry_queue', cur.path)]_vars

\* C12: an entry with nfo_hash h means the fields of the server item were
\* last written from sidecar content with hash h
C12_HashMatchesServerFields ==
    \A v \in Videos :
        cache[v].h # "none" => srvFields[v].main = cache[v].h /\ srvFields[v].sort = cache[v].h

\* C13: a pipeline run whose field edit fails reports failure, leaves the cache
\* as it is, and the hash gate does not skip a later attempt with the same sidecar
C13_FailedEditLeavesHashUnset ==
    [][\A t \in Threads :
          (th[t].pc = "pn_apply" /\ th'[t].pc \notin {"pn_apply", "pn_commit"})
          => /\ th'[t].pc \in {"ret", "pf_check"}
             /\ ~(IF th'[t].pc = "ret" THEN th'[t].ret ELSE th'[t].applied)
             /\ cache' = cache
             /\ ~(cache'[th[t].v].h = th[t].h /\ ~ALWAYS_APPLY_NFO)]_vars

\* C14: while the dirty flag is clear the cache file holds every mutation
C14_CleanMeansFlushed ==
    ~cache_modified => disk = FileOf(cache)

\* C15: when the process ends on a signal, the cache file holds the cache
C15_ExitFlushesCache ==
    [][(mode = "watch" /\ mode' = "exited") => disk' = FileOf(cache')]_vars

\* C17: once the shutdown path has cancelled the repair timer, no timer is
\* pending
C17_NoTimerAfterCancel ==
    th["consumer"].pc = "stopping" => PendingTimers(repair_timer) = 0

\* C16: at most one repair timer is pending at any time, and a repair_wrapper
\* that ends, after a sweep that returned or raised, leaves a timer pending
\* for the periodic interval
C16_OneTimerPending ==
    /\ PendingTimers(repair_timer) <= 1
    /\ [][/\ PendingTimers(repair_timer') <= 1
          /\ (\/ th["repair"].pc # "idle" /\ th'["repair"].pc = "idle"
              \/ repair_timer'.extra < repair_timer.extra)
             => /\ repair_timer'.state = "pending"
                /\ repair_timer'.delay = CACHE_REPAIR_INTERVAL]_vars

\* C16: a bonus timer is pending, scheduled while repair_wrapper runs, and
\* repair_wrapper is about to schedule the next periodic one
C16_Witness ==
    /\ th["repair"].pc = "rp_resched"
    /\ repair_timer.state = "pending"
    /\ repair_timer.delay = DELAY_AFTER_NEW_FILE

\* C18: in watch mode, when process_file ends a lookup for a new file without
\* a server id, a repair timer is pending with the delay DELAY_AFTER_NEW_FILE
C18_MissSchedulesBonusRepair ==
    [][(/\ mode = "watch"
        /\ th["consumer"].pc = "pf_find"
        /\ th'["consumer"].pc = "ret"
        /\ th'["consumer"].ret
        /\ cache'[th["consumer"].v].rk = "none")
       => /\ repair_timer'.state = "pending"
          /\ repair_timer'.delay = DELAY_AFTER_NEW_FILE]_vars

\* C19: in watch mode without transport errors, once a video and its sidecar
\* have appeared and the server has indexed the video, the cache entry
\* eventually has both the ratingKey and the nfo_hash
C19_LateIndexEventuallyApplied ==
    \A v \in WatchStems :
        (~flaky /\ video[v] /\ nfo[v] = "h1" /\ indexed[v])
            ~> (cache[v].rk # "none" /\ cache[v].h # "none")

\* the videos whose sidecar was not empty when the run began: no file appears
\* during a one-shot run, a sidecar only goes away by the removal after apply
HadSidecar(v) == video[v] /\ (nfo[v] \in Contents \/ v \in deleted_nfo_set)

CreatePending(p) ==
    \/ \E i \in 1..Len(events) : events[i] = [type |-> "created", path |-> p]
    \/ Queued(retry_queue, p)

C22_DeletedVideoDropped ==
    [][\A v \in WatchStems :
          (/\ th["consumer"].pc = "rq_next"
           /\ ready # <<>>
           /\ Head(ready) = PathV(v)
           /\ ~video[v]
           /\ ready' # ready \/ cur' # cur \/ th'["consumer"] # th["consumer"])
          => /\ ~cache'[v].in
             /\ ~Queued(retry_queue', PathV(v))
             /\ cur' = NoItem
             /\ th'["consumer"].pc = "rq_next"
             /\ InFlight' = InFlight
             /\ edits' = edits]_vars

\* C22: the consumer is about to take the due item of a deleted video whose
\* key is in the cache
C22_Witness ==
    /\ th["consumer"].pc = "rq_next"
    /\ ready # <<>>
    /\ Head(ready) = PathV("a")
    /\ Queued(retry_queue, PathV("a"))
    /\ ~video["a"]
    /\ cache["a"].in

\* C23: when the handler takes a move event that passes the debounce of both
\* paths, the cache key equal to or under the source is gone afterwards and
\* the destination is queued: the file itself, or each video and sidecar file
\* below a destination folder
C23_MoveIsDeletePlusCreate ==
    [][(/\ events # <<>>
        /\ Head(events).type = "moved"
        /\ events' = Tail(events)
        /\ DebouncePass(Head(events).path)
        /\ DebouncePass(Head(events).dest))
       => LET e == Head(events) IN
          /\ e.path.k \in {"video", "dir"} => ~cache'[e.path.v].in
          /\ \A i \in 1..Len(FilesBelow(e.dest)) :
                Queued(retry_queue', FilesBelow(e.dest)[i])]_vars

\* C24: an item that an observer callback put in the queue while the consumer
\* was processing the same path is still there, unchanged, after the consumer
\* has dealt with the result
C24_ObserverEnqueueSurvives ==
    [][(/\ th["consumer"].pc = "ret"
        /\ cur # NoItem
        /\ cur' = NoItem
        /\ Queued(retry_queue, cur.path))
       => /\ Queued(retry_queue', cur.path)
          /\ ItemOf(retry_queue', cur.path) = ItemOf(retry_queue, cur.path)]_vars

\* C25: a flush whose write of the cache file fails leaves the dirty flag set
\* and the cache lock free, and a failing flush of the consumer sends the
\* consumer back to its loop
C25_FailedFlushKeepsDirty ==
    [][\A t \in DOMAIN th :
          (th[t].pc = "save_write" /\ th'[t].pc # "save_write" /\ ~disk'.complete)
          => /\ cache_modified'
             /\ cache_lock' = "free"
             /\ t = "consumer" => th'[t].pc = "idle"]_vars

C27_SuccessRemovesSidecar ==
    [][\A t \in DOMAIN th :
          (/\ DELETE_NFO_AFTER_APPLY
           /\ th[t].pc \in {"pn_gate", "pn_commit"}
           /\ \/ th'[t].pc = "ret" /\ th'[t].ret
              \/ th'[t].pc = "pf_check" /\ th'[t].applied)
          => nfo'[th[t].v] = "none"]_vars

\* C28: a sidecar that is missing or empty when the pipeline starts makes the
\* pipeline return success at once, and the consumer does not reschedule the
\* item of an empty sidecar
C28_EmptySidecarIsAbsent ==
    [][/\ \A t \in DOMAIN th :
             (/\ th[t].pc = "pn_start"
              /\ nfo[th[t].v] \in {"none", "empty"}
              /\ th'[t] # th[t])
             => /\ \/ th'[t].pc = "ret" /\ th'[t].ret
                   \/ th'[t].pc = "pf_check" /\ th'[t].applied
                /\ InFlight' = InFlight
                /\ cache' = cache
       /\ (/\ th["consumer"].pc = "ret"
           /\ cur # NoItem
           /\ cur' = NoItem
           /\ cur.is_nfo
           /\ nfo[cur.path.v] = "empty")
          => retry_queue' = retry_queue]_vars

\* ------------------------------------------------ process_nfo: the companion
\* line 60
VIDEO_EXTS == <<".mkv", ".mp4", ".avi", ".mov", ".wmv", ".flv", ".m4v">>
Suffixes == {""} \cup {VIDEO_EXTS[i] : i \in 1..Len(VIDEO_EXTS)}

\* lines 496-500: the first candidate from position i on that exists; the path
\* without suffix stays when the loop finds none
RECURSIVE FirstCandidate(_, _)
FirstCandidate(existing, i) ==
    IF i > Len(VIDEO_EXTS) THEN ""
    ELSE IF VIDEO_EXTS[i] \in existing THEN VIDEO_EXTS[i]
    ELSE FirstCandidate(existing, i + 1)

\* lines 494-500: p.with_suffix("") when it exists, else the loop
CompanionVideo(existing) ==
    IF "" \in existing THEN "" ELSE FirstCandidate(existing, 1)

\* lines 490-500 of process_nfo called with the sidecar X.nfo
ProcessNfoPaths ==
    /\ video_path = "unset"
    /\ upload = NoUpload
    /\ lk = NoLocks
    /\ video_path' = CompanionVideo(siblings)
    /\ UNCHANGED <<mode, ALWAYS_APPLY_NFO, DELETE_NFO_AFTER_APPLY, rcBound, flaky, siblings,
                   upload, lk, purged, repair_timer, cacheVars, disk, fsVars, srvVars, deleted_nfo_set,
                   processed_files, th, tasks, events, watchVars>>

\* a sidecar X.nfo and any set of files named X or X plus a video extension
InitCompanion ==
    /\ mode = "oneshot"
    /\ siblings \in SUBSET Suffixes
    /\ video_path = "unset"
    /\ upload = NoUpload
    /\ lk = NoLocks
    /\ InitCommon
    /\ fsOps = 0
    /\ rcBound = 0
    /\ repair_timer = NoTimer
    /\ flaky = FALSE
    /\ video = [v \in Videos |-> v = "a" /\ siblings # {}]
    /\ nfo = [v \in Videos |-> IF v = "a" THEN "h1" ELSE "none"]
    /\ indexed = [v \in Videos |-> FALSE]
    /\ th = [t \in Threads |-> IdleThread]

SpecCompanion == InitCompanion /\ [][ProcessNfoPaths]_vars

\* C29: the companion chosen for X.nfo is the first of X.mkv, X.mp4, X.avi,
\* X.mov, X.wmv, X.flv, X.m4v that exists, and no video is chosen when none of
\* them exists
C29_FirstExistingExtension ==
    video_path # "unset"
    => IF \E i \in 1..Len(VIDEO_EXTS) : VIDEO_EXTS[i] \in siblings
       THEN \E i \in 1..Len(VIDEO_EXTS) :
               /\ video_path = VIDEO_EXTS[i]
               /\ VIDEO_EXTS[i] \in siblings
               /\ \A j \in 1..(i - 1) : VIDEO_EXTS[j] \notin siblings
       ELSE \A i \in 1..Len(VIDEO_EXTS) : video_path # VIDEO_EXTS[i]

\* C30: a step that calls update_cache for the path of v leaves an entry for v,
\* sets the fields it supplies, keeps the other field as it was (unset when
\* the path was absent), leaves every other key as it was and sets the dirty
\* flag; the sidecar pipeline supplies the ratingKey when it has found the item
\* and both fields when it commits, the video pipeline and the repair supply
\* at most the ratingKey
C30_UpdateTouchesSuppliedFields ==
    [][/\ \A t \in DOMAIN th :
             LET v == th[t].v
                 old == IF cache[v].in THEN cache[v] ELSE EmptyEntry
                 find == th[t].pc = "pn_find" /\ th'[t].pc = "pn_apply"
                 commit == th[t].pc = "pn_commit" /\ th'[t].pc # "pn_commit"
                 file == th[t].pc = "pf_find" /\ th'[t].pc = "ret" /\ th'[t].ret
             IN (find \/ commit \/ file)
                => /\ cache'[v].in
                   /\ cache_modified'
                   /\ \A w \in Videos \ {v} : cache'[w] = cache[w]
                   /\ find => cache'[v].rk = th'[t].item /\ cache'[v].h = old.h
                   /\ commit => cache'[v].rk = th[t].item /\ cache'[v].h = th[t].h
                   /\ file => /\ cache'[v].h = old.h
                              /\ cache'[v].rk = old.rk \/ cache'[v].rk # "none"
       /\ (th["repair"].pc = "rp_find" /\ rp' # rp /\ cache' # cache)
          => LET v == Head(rp.missing).v
                 old == IF cache[v].in THEN cache[v] ELSE EmptyEntry
             IN /\ cache'[v].in
                /\ cache_modified'
                /\ \A w \in Videos \ {v} : cache'[w] = cache[w]
                /\ cache'[v].rk # "none"
                /\ cache'[v].h = old.h]_vars

\* the sidecar pipeline has just recorded the ratingKey of an entry that
\* carries the hash of an earlier sidecar
C30_Witness ==
    \E t \in DOMAIN th :
        /\ th[t].pc = "pn_apply"
        /\ cache[th[t].v].h \notin {"none", th[t].h}
        /\ cache[th[t].v].rk = th[t].item
        /\ cache_modified
        /\ disk = FileOf(cache)

\* C31: save_cache leaves the file alone when the dirty flag is clear; nothing
\* changes the cache while a save_cache holds the lock; and a write that
\* succeeds leaves the file equal to the cache and the dirty flag clear
C31_FlushWritesSnapshot ==
    [][/\ \A t \in DOMAIN th :
             /\ (th[t].pc = "save" /\ th'[t].pc # "save" /\ ~cache_modified)
                => disk' = disk /\ th'[t].pc # "save_write"
             /\ th[t].pc = "save_write" => cache' = cache
             /\ (th[t].pc = "save_write" /\ th'[t].pc # "save_write" /\ disk'.complete)
                => /\ disk' = FileOf(cache')
                   /\ ~cache_modified'
                   /\ cache_lock' = "free"]_vars

\* the consumer's save_cache has just written a cache that has an entry
C31_Witness ==
    /\ th["consumer"].pc = "rq_reset"
    /\ disk = FileOf(cache)
    /\ cache # EmptyCache
    /\ ~cache_modified

C33_DispatchedItemIsDue ==
    [][(/\ th["consumer"].pc = "rq_next"
        /\ cur = NoItem
        /\ cur' # NoItem)
       => cur'.due = 0]_vars

\* C34: when the handler has taken a create event for a folder, every video
\* and sidecar below the folder is on the retry queue with its initial delay,
\* unless a create event of its own is still to be dispatched
C34_FolderCreateEnqueuesFiles ==
    [][(/\ events # <<>>
        /\ Head(events).type = "created"
        /\ Head(events).path.k = "dir"
        /\ events' = Tail(events)
        /\ DebouncePass(Head(events).path))
       => \A i \in 1..Len(FilesBelow(Head(events).path)) :
             LET f == FilesBelow(Head(events).path)[i] IN
             \/ /\ Queued(retry_queue', f)
                /\ ItemOf(retry_queue', f).delay = InitialDelay(f)
                /\ ItemOf(retry_queue', f).rc = 0
             \/ \E j \in 1..Len(events') :
                   events'[j].type = "created" /\ events'[j].path = f]_vars

\* ------------------------------------------- the scan of a one-shot run that
\* starts on the cache file of an earlier run
InitScan ==
    /\ mode = "oneshot"
    /\ siblings = {}
    /\ video_path = "unset"
    /\ upload = NoUpload
    /\ lk = NoLocks
    /\ ALWAYS_APPLY_NFO \in BOOLEAN
    /\ DELETE_NFO_AFTER_APPLY \in BOOLEAN
    /\ cache \in [Videos -> {Absent} \cup CachedEntries]
    /\ \A v \in Videos : cache[v].rk \in {"none", v}
    /\ cache_modified = FALSE
    /\ cache_lock = "free"
    /\ disk = FileOf(cache)
    /\ edits = [v \in Videos |-> 0]
    /\ srvFields = [v \in Videos |-> [main |-> cache[v].h, sort |-> cache[v].h]]
    /\ deleted_nfo_set = {}
    /\ processed_files = {}
    /\ tasks = <<>>
    /\ retry_queue = <<>>
    /\ since = [p \in Paths |-> WATCH_DEBOUNCE_DELAY]
    /\ events = <<>>
    /\ ready = <<>>
    /\ cur = NoItem
    /\ rp = [missing |-> <<>>, repaired |-> FALSE]
    /\ purged = {}
    /\ fsOps = 0
    /\ rcBound = 0
    /\ repair_timer = NoTimer
    /\ flaky \in BOOLEAN
    /\ video \in [Videos -> BOOLEAN]
    /\ nfo \in [Videos -> {"none", "h1"}]
    /\ indexed \in [Videos -> BOOLEAN]
    /\ \A v \in Videos : indexed[v] => video[v]
    /\ th = [t \in Threads |-> IF t = "main" THEN [IdleThread EXCEPT !.pc = "scan"]
                                ELSE IdleThread]

NextScan ==
    \/ MainScan
    \/ SaveBegin("main")
    \/ SaveWrite("main")

SpecScan == InitScan /\ [][NextScan]_vars

\* C35: when scan_and_update_cache has gone through the cache, the keys are
\* the videos on disk: a video that had no key has an entry with the ratingKey
\* the server resolved, or an empty one, a key whose file is missing is gone,
\* and an entry that was cached for a video on disk is as it was
C35_ScanMakesKeysTheVideos ==
    [][(th["main"].pc = "scan" /\ th'["main"].pc = "save")
       => \A v \in Videos :
             /\ cache'[v].in <=> video[v]
             /\ (video[v] /\ cache[v].in) => cache'[v] = cache[v]
             /\ (video[v] /\ ~cache[v].in)
                => cache'[v] = [in |-> TRUE, rk |-> IF indexed[v] THEN v ELSE "none",
                                h |-> "none"]
             /\ ~video[v] => cache'[v] = Absent]_vars

\* the scan has dropped the key of a, whose file is gone, and added b
C35_Witness ==
    /\ th["main"].pc = "save"
    /\ th["main"].kind = "scan"
    /\ disk.map["a"].in
    /\ ~cache["a"].in
    /\ ~disk.map["b"].in
    /\ cache["b"].in
    /\ cache_modified

\* the fair watch run in which a file may be written again: a second create
\* event for a path that exists
NextRepeat ==
    \/ ObserverDispatch
    \/ Consumer
    \/ Repair
    \/ \E p \in Paths : EnvCreate(p, "h1")
    \/ \E v \in WatchStems : EnvIndex(v)
    \/ Tick

SpecRepeat ==
    /\ InitPair
    /\ [][NextRepeat]_vars
    /\ WF_vars(ObserverDispatch)
    /\ SF_vars(Consumer)
    /\ SF_vars(Repair)
    /\ WF_vars(Tick)

\* C36: in a run without server errors, an attempt on a video file that
\* exists is not rescheduled: when the consumer has dealt with its result the
\* retry queue is as it was
C36_VideoItemNotRescheduled ==
    [][(/\ ~flaky
        /\ th["consumer"].pc = "ret"
        /\ cur # NoItem
        /\ ~cur.is_nfo
        /\ video[cur.path.v]
        /\ cur' = NoItem)
       => retry_queue' = retry_queue]_vars

\* --------------------------------------------------------- upload_subtitles
\* the function is defined twice: in tubesync-plex-metadata.py (lines 673-694,
\* impl "script", always with the global api_semaphore) and in core/subtitles.py
\* (lines 35-53, impl "core", with the semaphore its caller passes, or none)

\* the next subtitle file, or the return when none is left
UploadNext(u) ==
    IF u.srt_files = 1
    THEN [u EXCEPT !.srt_files = 0, !.retries = 0, !.pc = "done"]
    ELSE [u EXCEPT !.srt_files = @ - 1, !.retries = 3, !.pc = "try"]

\* script line 678 (`with api_semaphore:`), core lines 40-41 (acquire()): the
\* thread blocks while no permit is left
UploadAcquire ==
    /\ upload.pc = "try"
    /\ upload.sem => upload.api_semaphore > 0
    /\ upload' = [upload EXCEPT !.pc = "call",
                                !.api_semaphore = IF upload.sem THEN @ - 1 ELSE @]
    /\ UNCHANGED <<mode, ALWAYS_APPLY_NFO, DELETE_NFO_AFTER_APPLY, rcBound, flaky, siblings,
                   video_path, lk, purged, repair_timer, cacheVars, disk, fsVars, srvVars,
                   deleted_nfo_set, processed_files, th, tasks, events, watchVars>>

\* permits left after an upload call: the with-block of the script releases
\* whether the call returned or raised, the core releases after the call only
UploadRelease(u, ok) ==
    IF u.sem /\ (ok \/ u.impl = "script") THEN u.api_semaphore + 1 ELSE u.api_semaphore

\* script lines 680-694, core lines 42-53: the server call returns (break) or
\* raises (retries -= 1; the while loop ends at 0 and the for loop goes on)
UploadCall ==
    /\ upload.pc = "call"
    /\ \E ok \in BOOLEAN :
          LET u == [upload EXCEPT !.api_semaphore = UploadRelease(upload, ok)] IN
          upload' = IF ok \/ u.retries = 1 THEN UploadNext(u)
                    ELSE [u EXCEPT !.retries = @ - 1, !.pc = "try"]
    /\ UNCHANGED <<mode, ALWAYS_APPLY_NFO, DELETE_NFO_AFTER_APPLY, rcBound, flaky, siblings,
                   video_path, lk, purged, repair_timer, cacheVars, disk, fsVars, srvVars,
                   deleted_nfo_set, processed_files, th, tasks, events, watchVars>>

\* upload_subtitles(ep, srt_files) is called with one to MaxSrt files and all
\* permits available
InitUpload ==
    /\ mode = "oneshot"
    /\ siblings = {}
    /\ video_path = "unset"
    /\ lk = NoLocks
    /\ \E impl \in {"script", "core"} : \E sem \in BOOLEAN : \E n \in 1..MaxSrt :
          /\ impl = "script" => sem
          /\ upload = [impl |-> impl, sem |-> sem, pc |-> "try",
                       api_semaphore |-> MAX_CONCURRENT_REQUESTS, retries |-> 3,
                       srt_files |-> n]
    /\ InitCommon
    /\ fsOps = 0
    /\ rcBound = 0
    /\ repair_timer = NoTimer
    /\ flaky = TRUE
    /\ video = [v \in Videos |-> v = "a"]
    /\ nfo = [v \in Videos |-> "none"]
    /\ indexed = [v \in Videos |-> v = "a"]
    /\ th = [t \in Threads |-> IdleThread]

NextUpload == UploadAcquire \/ UploadCall

SpecUpload == InitUpload /\ [][NextUpload]_vars

\* C37: upload_subtitles never waits for a permit that it holds itself, and
\* when it has returned the semaphore has as many permits as before the call
C37_UploadReleasesPermits ==
    /\ (upload.pc = "try" /\ upload.sem) => upload.api_semaphore > 0
    /\ upload.pc = "done" => upload.api_semaphore = MAX_CONCURRENT_REQUESTS
    /\ upload.retries \in 0..3

\* -------------------------------------------------------------------- locks
\* A call is the sequence of the lock operations it makes, a function the set
\* of the sequences its paths can make.  `with l:` around a body:
With(l, body) ==
    {<<[op |-> "acq", lock |-> l]>> \o b \o <<[op |-> "rel", lock |-> l]>> : b \in body}

\* one call after another
Then(A, B) == {a \o b : a \in A, b \in B}

\* lines 262-270
save_cache == With("cache_lock", {<<>>})

\* lines 272-286
update_cache_with == With("cache_lock", {<<>>})

\* lines 705-715
schedule_cache_repair == With("repair_lock", {<<>>})

\* lines 490-570: return before any lock; the skip of an applied NFO with or
\* without the delete under nfo_lock (518-529); update_cache after a lookup
\* (544), update_cache after the edit (553), the delete under nfo_lock (554-561)
process_nfo ==
    With("nfo_lock", {<<>>})
    \cup Then(update_cache_with \cup {<<>>},
              {<<>>} \cup Then(update_cache_with, With("nfo_lock", {<<>>}) \cup {<<>>}))

\* lines 577-643: the duplicate check under processed_files_lock, process_nfo,
\* update_cache (624, 627) and, when schedule_timer, schedule_cache_repair (633)
process_file(timer) ==
    Then(With("processed_files_lock", {<<>>}),
         {<<>>} \cup Then(process_nfo,
                          {<<>>} \cup Then(update_cache_with,
                                           IF timer
                                           THEN schedule_cache_repair \cup {<<>>}
                                           ELSE {<<>>})))

\* lines 765-822, one item per pass: the pop of a vanished path under
\* cache_lock (776), process_file or process_nfo, and the flush (819)
process_retry_queue ==
    Then(With("cache_lock", {<<>>}) \cup process_file(FALSE) \cup process_nfo \cup {<<>>},
         save_cache \cup {<<>>})

\* lines 852-863: remove_from_cache (289-300) for a cached key
handle_deleted == With("cache_lock", {<<>>})

\* lines 718-729 with repair_missing_ratingkeys (924-952)
repair_wrapper ==
    Then(Then(update_cache_with \cup {<<>>}, save_cache \cup {<<>>}), schedule_cache_repair)

\* the flush made while the scan still holds cache_lock
scan_and_update_cache_nested == With("cache_lock", save_cache \cup {<<>>})

\* lines 978-1031: the add and remove loops under cache_lock (find_plex_item
\* takes no lock), the flush after the with-block
scan_and_update_cache == Then(With("cache_lock", {<<>>}), save_cache \cup {<<>>})

\* lines 1033-1065: the scan, the thread pool until its tasks are done, the
\* final flush
run_processing ==
    Then(Then(scan_and_update_cache, {<<[op |-> "pool", lock |-> "none"]>>}), save_cache)

\* the calls thread t makes: in a one-shot run the main thread and the pool
\* (process_nfo and process_file tasks); in watch mode the main thread as
\* consumer (start_watchdog: the first schedule at 903, the loop, the cancel
\* under repair_lock at 916), the observer thread and the timer thread
Menu(t) ==
    IF mode = "oneshot"
    THEN IF t = "main" THEN run_processing
         ELSE IF t \in Workers THEN process_nfo \cup process_file(FALSE)
         ELSE {}
    ELSE IF t = "consumer" THEN schedule_cache_repair \cup process_retry_queue
         ELSE IF t = "observer" THEN handle_deleted
         ELSE IF t = "repair" THEN repair_wrapper
         ELSE {}

\* thread t enters a call; a pool thread runs tasks only while the pool is open
LockCall(t) ==
    /\ lk.ops[t] = <<>>
    /\ t \in Workers => /\ lk.ops["main"] # <<>>
                        /\ Head(lk.ops["main"]).op = "pool"
    /\ \E path \in Menu(t) \ {<<>>} : lk' = [lk EXCEPT !.ops[t] = path]
    /\ UNCHANGED <<mode, ALWAYS_APPLY_NFO, DELETE_NFO_AFTER_APPLY, rcBound, flaky, siblings,
                   video_path, upload, purged, repair_timer, cacheVars, disk, fsVars, srvVars,
                   deleted_nfo_set, processed_files, th, tasks, events, watchVars>>

\* threading.Lock is not reentrant: acquire waits while anyone, the caller
\* included, holds the lock; `order` records which locks were held
LockAcquire(t) ==
    /\ lk.ops[t] # <<>>
    /\ Head(lk.ops[t]).op = "acq"
    /\ lk.holder[Head(lk.ops[t]).lock] = "free"
    /\ lk' = [lk EXCEPT !.holder[Head(lk.ops[t]).lock] = t,
                        !.ops[t] = Tail(@),
                        !.order = @ \cup {<<h, Head(lk.ops[t]).lock>> :
                                            h \in {l \in LockNames : lk.holder[l] = t}}]
    /\ UNCHANGED <<mode, ALWAYS_APPLY_NFO, DELETE_NFO_AFTER_APPLY, rcBound, flaky, siblings,
                   video_path, upload, purged, repair_timer, cacheVars, disk, fsVars, srvVars,
                   deleted_nfo_set, processed_files, th, tasks, events, watchVars>>

\* the end of a with-block
LockRelease(t) ==
    /\ lk.ops[t] # <<>>
    /\ Head(lk.ops[t]).op = "rel"
    /\ lk' = [lk EXCEPT !.holder[Head(lk.ops[t]).lock] = "free", !.ops[t] = Tail(@)]
    /\ UNCHANGED <<mode, ALWAYS_APPLY_NFO, DELETE_NFO_AFTER_APPLY, rcBound, flaky, siblings,
                   video_path, upload, purged, repair_timer, cacheVars, disk, fsVars, srvVars,
                   deleted_nfo_set, processed_files, th, tasks, events, watchVars>>

\* line 1052: leaving `with ThreadPoolExecutor` waits for every task
PoolJoin ==
    /\ lk.ops["main"] # <<>>
    /\ Head(lk.ops["main"]).op = "pool"
    /\ \A w \in Workers : lk.ops[w] = <<>>
    /\ lk' = [lk EXCEPT !.ops["main"] = Tail(@)]
    /\ UNCHANGED <<mode, ALWAYS_APPLY_NFO, DELETE_NFO_AFTER_APPLY, rcBound, flaky, siblings,
                   video_path, upload, purged, repair_timer, cacheVars, disk, fsVars, srvVars,
                   deleted_nfo_set, processed_files, th, tasks, events, watchVars>>

InitLocks ==
    /\ mode \in {"oneshot", "watch"}
    /\ siblings = {}
    /\ video_path = "unset"
    /\ upload = NoUpload
    /\ lk = NoLocks
    /\ InitCommon
    /\ fsOps = 0
    /\ rcBound = 0
    /\ repair_timer = NoTimer
    /\ flaky = TRUE
    /\ video = [v \in Videos |-> v = "a"]
    /\ nfo = [v \in Videos |-> "none"]
    /\ indexed = [v \in Videos |-> v = "a"]
    /\ th = [t \in Threads |-> IdleThread]

NextLocks ==
    \/ \E t \in LockThreads : LockCall(t)
    \/ \E t \in LockThreads : LockAcquire(t)
    \/ \E t \in LockThreads : LockRelease(t)
    \/ PoolJoin

SpecLocks == InitLocks /\ [][NextLocks]_vars

\* C38: the threads never deadlock on cache_lock, nfo_lock, repair_lock and
\* processed_files_lock: no thread is about to acquire a lock that it holds
\* itself, no group of threads waits each for a lock another of the group
\* holds, and no two locks have ever been acquired in both orders
C38_NoLockDeadlock ==
    LET Waits(t) == /\ lk.ops[t] # <<>>
                    /\ Head(lk.ops[t]).op = "acq"
                    /\ lk.holder[Head(lk.ops[t]).lock] # "free"
        Blocker(t) == lk.holder[Head(lk.ops[t]).lock]
    IN  /\ \A t \in LockThreads : Waits(t) => Blocker(t) # t
        /\ \A S \in SUBSET LockThreads :
              S # {} => \E t \in S : ~Waits(t) \/ Blocker(t) \notin S
        /\ \A a, b \in LockNames : <<a, b>> \in lk.order => <<b, a>> \notin lk.order

\* a thread waits for cache_lock while another holds it, and a third thread
\* holds another of the locks
C38_Witness ==
    \E t, u, x \in LockThreads :
       /\ t # u /\ x # u /\ x # t
       /\ lk.ops[t] # <<>>
       /\ Head(lk.ops[t]) = [op |-> "acq", lock |-> "cache_lock"]
       /\ lk.holder["cache_lock"] = u
       /\ \E l \in LockNames \ {"cache_lock"} : lk.holder[l] = x

=============================================================================
